---- MODULE Spec2Model ----
(***************************************************************************)
(* image_ripper.py: main() lists the undeleted and the deleted entries of  *)
(* a disk image with fls, extracts each entry with icat into               *)
(* output/overt and output/deleted, classifies it with `file -b`, sums the *)
(* sizes, reads PDF / EXIF metadata, writes a report and a sqlite          *)
(* database.                                                               *)
(*                                                                         *)
(* Encoding.  A file content is a sequence of bytes (small naturals); the  *)
(* first byte is the magic that `file -b` recognises, a 0 byte in the body *)
(* is a corruption that makes the metadata parsers raise.  A path is a     *)
(* sequence of components.  Python's None is the empty tuple.  A printed   *)
(* label of `file -b` is a sequence of one-character strings.              *)
(***************************************************************************)
EXTENDS Integers, Sequences, FiniteSets, TLC

VARIABLES pc, fls_ok, fls_stdout, undeleted, deleted, idx, all_results,
          overt_results, deleted_results, file_type, disk, dirs,
          total_file_size, total_useful_size, report, image_info, file_info

vars == <<pc, fls_ok, fls_stdout, undeleted, deleted, idx, all_results,
          overt_results, deleted_results, file_type, disk, dirs,
          total_file_size, total_useful_size, report, image_info, file_info>>

\* Longest fls listing of one partition.
MaxEntries == 2

None == <<>>

img_name == "image.dd"

overt_dest == <<"output", "overt">>

deleted_dest == <<"output", "deleted">>

Last(s) == s[Len(s)]

startswith(s, prefix) ==
  /\ Len(prefix) <= Len(s)
  /\ SubSeq(s, 1, Len(prefix)) = prefix

(***************************************************************************)
(* The disk image under examination: for every inode the path fls prints, *)
(* the bytes icat writes to stdout, whether icat succeeds, and whether the *)
(* inode is allocated (listed by fls -u) or deleted (listed by fls -d).    *)
(***************************************************************************)
Image ==
  (1 :> [fname |-> <<"docs", "a.pdf">>, data |-> <<1, 7, 7>>,
         icat_ok |-> TRUE, allocated |-> TRUE]) @@
  (2 :> [fname |-> <<"a.pdf">>, data |-> <<7, 7>>,
         icat_ok |-> TRUE, allocated |-> TRUE]) @@
  (3 :> [fname |-> <<"tmp", "a.pdf">>, data |-> <<2, 7, 7, 7>>,
         icat_ok |-> TRUE, allocated |-> TRUE]) @@
  (4 :> [fname |-> <<"c">>, data |-> <<>>,
         icat_ok |-> TRUE, allocated |-> TRUE]) @@
  (5 :> [fname |-> <<"e.jpg">>, data |-> <<2, 7>>,
         icat_ok |-> FALSE, allocated |-> TRUE]) @@
  (6 :> [fname |-> <<"b.txt">>, data |-> <<1, 0>>,
         icat_ok |-> TRUE, allocated |-> FALSE]) @@
  (7 :> [fname |-> <<"old", "b.txt">>, data |-> <<3, 7>>,
         icat_ok |-> TRUE, allocated |-> FALSE]) @@
  (8 :> [fname |-> <<"notes">>, data |-> <<7>>,
         icat_ok |-> TRUE, allocated |-> FALSE])

Nodes == DOMAIN Image

\* What `file -b` prints for a content, by its magic.
MagicLabel ==
  (0 :> <<"d", "a", "t", "a">>) @@
  (1 :> <<"P", "D", "F", " ", "d", "o", "c", "u", "m", "e", "n", "t">>) @@
  (2 :> <<"J", "P", "E", "G", " ", "i", "m", "a", "g", "e">>) @@
  (3 :> <<"P", "N", "G", " ", "i", "m", "a", "g", "e">>) @@
  (4 :> <<"G", "I", "F", " ", "i", "m", "a", "g", "e">>) @@
  (5 :> <<"T", "I", "F", "F", " ", "i", "m", "a", "g", "e">>) @@
  (6 :> <<"P", "C", " ", "b", "i", "t", "m", "a", "p">>) @@
  (7 :> <<"A", "S", "C", "I", "I", " ", "t", "e", "x", "t">>) @@
  (8 :> <<"P", "C", "X", " ", "i", "m", "a", "g", "e">>) @@
  (9 :> <<"A", "d", "o", "b", "e", " ", "P", "D", "F">>)

Sniff(data) ==
  IF data = <<>> THEN <<"e", "m", "p", "t", "y">> ELSE MagicLabel[data[1]]

\* fls prints one line per entry: type, "[* ]inode:", tab, path.  The empty
\* strings that split('\n') leaves are skipped by get_nodes_from_fls and are
\* left out of the listing.
FlsLine(node, is_deleted) ==
  [entry_type |-> "r/r",
   location |-> IF is_deleted THEN <<"*", node>> ELSE <<node>>,
   fname |-> Image[node].fname]

RECURSIVE SeqsUpTo(_, _)
SeqsUpTo(S, n) ==
  IF n = 0 THEN {<<>>}
  ELSE LET shorter == SeqsUpTo(S, n - 1)
       IN shorter \cup {Append(s, x) : s \in {t \in shorter : Len(t) = n - 1}, x \in S}

Listings(is_deleted) ==
  SeqsUpTo({FlsLine(n, is_deleted) :
              n \in {m \in Nodes : Image[m].allocated = ~is_deleted}},
           MaxEntries)

fls_get_undeleted(img) == [tool |-> "fls", flags |-> "-F -p -r -u", arg |-> img]

fls_get_deleted(img) == [tool |-> "fls", flags |-> "-F -p -r -d", arg |-> img]

icat_get_file(img, node) == [tool |-> "icat", flags |-> img, arg |-> node]

file_get_type(fname) == [tool |-> "file", flags |-> "-b", arg |-> fname]

(***************************************************************************)
(* get_result_from_subprocess returns the tool's stdout; the exit status   *)
(* and stderr are dropped.  A tool that fails has written nothing to       *)
(* stdout.                                                                 *)
(***************************************************************************)
get_result_from_subprocess(cmd, d) ==
  CASE cmd.tool = "fls" ->
         IF fls_ok[cmd.flags] THEN fls_stdout[cmd.flags] ELSE <<>>
    [] cmd.tool = "icat" ->
         IF Image[cmd.arg].icat_ok THEN Image[cmd.arg].data ELSE <<>>
    [] cmd.tool = "file" -> Sniff(d[cmd.arg])

RECURSIVE get_nodes_from_fls_lines(_)
get_nodes_from_fls_lines(lines) ==
  IF lines = <<>> THEN <<>>
  ELSE <<[location |-> Last(lines[1].location), fname |-> lines[1].fname]>>
       \o get_nodes_from_fls_lines(Tail(lines))

get_nodes_from_fls(fls_command) ==
  get_nodes_from_fls_lines(get_result_from_subprocess(fls_command, disk))

\* hashlib.md5(data).hexdigest(): a 16-bit digest stands for the 128-bit one.
RECURSIVE md5_update(_, _)
md5_update(h, data) ==
  IF data = <<>> THEN h
  ELSE md5_update((h * 31 + data[1] + 1) % 65536, Tail(data))

get_md5(fname, d) == md5_update(7, d[fname])

RECURSIVE contains(_, _)
contains(s, part) ==
  IF Len(s) < Len(part) THEN FALSE
  ELSE startswith(s, part) \/ contains(Tail(s), part)

\* get_file_type with `magic in result` for result.startswith(magic)
get_file_type_contains(fname, d) ==
  LET result == get_result_from_subprocess(file_get_type(fname), d)
  IN IF contains(result, <<"P", "D", "F">>) THEN "pdf"
     ELSE IF \E magic \in {<<"J", "P", "E", "G">>, <<"P", "N", "G">>,
                           <<"G", "I", "F">>, <<"T", "I", "F", "F">>,
                           <<"P", "C", " ", "b", "i", "t", "m", "a", "p">>} :
                contains(result, magic)
          THEN "image"
          ELSE "other"

get_file_type(fname, d) ==
  LET result == get_result_from_subprocess(file_get_type(fname), d)
  IN IF startswith(result, <<"P", "D", "F">>) THEN "pdf"
     ELSE IF \E magic \in {<<"J", "P", "E", "G">>, <<"P", "N", "G">>,
                           <<"G", "I", "F">>, <<"T", "I", "F", "F">>,
                           <<"P", "C", " ", "b", "i", "t", "m", "a", "p">>} :
                startswith(result, magic)
          THEN "image"
          ELSE "other"

\* os.path.join(destination, basename of os.path.join(destination, fname))
resolve_destination(destination, fname) ==
  destination \o <<Last(destination \o fname)>>

extract_file(img, node, destination, d) ==
  (destination :> get_result_from_subprocess(icat_get_file(img, node), d)) @@ d

os_remove(fname, d) == [p \in (DOMAIN d) \ {fname} |-> d[p]]

delete_other == TRUE

\* One iteration of the loop of extract_all_files: the record appended.
extract_entry_result(img, entry, destination, d) ==
  LET final_destination == resolve_destination(destination, entry.fname)
      written == extract_file(img, entry.location, final_destination, d)
      ftype == get_file_type(final_destination, written)
  IN [original_path |-> entry.fname,
      location |-> entry.location,
      final_destination |->
        IF delete_other /\ ftype = "other" THEN None ELSE final_destination,
      size |-> Len(written[final_destination]),
      md5 |-> get_md5(final_destination, written),
      file_type |-> ftype]

\* One iteration of the loop of extract_all_files: the files left on disk.
extract_entry_disk(img, entry, destination, d) ==
  LET final_destination == resolve_destination(destination, entry.fname)
      written == extract_file(img, entry.location, final_destination, d)
      ftype == get_file_type(final_destination, written)
  IN IF delete_other /\ ftype = "other"
     THEN os_remove(final_destination, written)
     ELSE written

\* PyPDF2.PdfFileReader(fh).getDocumentInfo(); raises on what is no sound PDF.
get_pdf_metadata(fname, d) ==
  IF fname = None \/ fname \notin DOMAIN d
  THEN [raised |-> TRUE, value |-> None]
  ELSE LET data == d[fname]
       IN IF data # <<>> /\ data[1] = 1 /\ \A i \in 2..Len(data) : data[i] # 0
          THEN [raised |-> FALSE, value |-> <<"DocumentInfo", Len(data)>>]
          ELSE [raised |-> TRUE, value |-> None]

\* EXIF.process_file(fh): no tags for what is no JPEG/TIFF, raises on a
\* corrupt one.
get_exif_data(fname, d) ==
  IF fname = None \/ fname \notin DOMAIN d
  THEN [raised |-> TRUE, value |-> None]
  ELSE LET data == d[fname]
       IN IF data = <<>> \/ data[1] \notin {2, 5}
          THEN [raised |-> FALSE, value |-> <<"EXIF">>]
          ELSE IF \A i \in 2..Len(data) : data[i] # 0
               THEN [raised |-> FALSE, value |-> <<"EXIF", Len(data)>>]
               ELSE [raised |-> TRUE, value |-> None]

\* get_metadata with the exception recorded in the field instead of passed.
get_metadata_error_value(entry, d) ==
  LET path == entry.final_destination
      cleared == [file_metadata |-> None] @@ entry
      got == IF entry.file_type = "pdf" THEN get_pdf_metadata(path, d)
             ELSE IF entry.file_type = "image" THEN get_exif_data(path, d)
             ELSE [raised |-> FALSE, value |-> None]
  IN IF got.raised THEN [cleared EXCEPT !.file_metadata = <<"error">>]
     ELSE [cleared EXCEPT !.file_metadata = got.value]

\* get_metadata that forgets the path of a file it could not parse.
get_metadata_drops_path(entry, d) ==
  LET path == entry.final_destination
      cleared == [file_metadata |-> None] @@ entry
      got == IF entry.file_type = "pdf" THEN get_pdf_metadata(path, d)
             ELSE IF entry.file_type = "image" THEN get_exif_data(path, d)
             ELSE [raised |-> FALSE, value |-> None]
  IN IF got.raised THEN [cleared EXCEPT !.final_destination = None]
     ELSE [cleared EXCEPT !.file_metadata = got.value]

\* The body of the two metadata loops of main: try / except: pass.
get_metadata(entry, d) ==
  LET path == entry.final_destination
      cleared == [file_metadata |-> None] @@ entry
      got == IF entry.file_type = "pdf" THEN get_pdf_metadata(path, d)
             ELSE IF entry.file_type = "image" THEN get_exif_data(path, d)
             ELSE [raised |-> FALSE, value |-> None]
  IN IF got.raised THEN cleared
     ELSE [cleared EXCEPT !.file_metadata = got.value]

\* add_file_sizes that skips the discarded entries.
RECURSIVE add_file_sizes_kept_only(_, _)
add_file_sizes_kept_only(total, results) ==
  IF results = <<>> THEN total
  ELSE add_file_sizes_kept_only(
         IF results[1].final_destination # None
         THEN total + results[1].size ELSE total,
         Tail(results))

\* total_file_size += entry['size'] over the entries, in order.
RECURSIVE add_file_sizes(_, _)
add_file_sizes(total, results) ==
  IF results = <<>> THEN total
  ELSE add_file_sizes(total + results[1].size, Tail(results))

\* add_useful_sizes without the file_type test.
RECURSIVE add_useful_sizes_unfiltered(_, _)
add_useful_sizes_unfiltered(total, results) ==
  IF results = <<>> THEN total
  ELSE add_useful_sizes_unfiltered(total + results[1].size, Tail(results))

\* if entry['file_type'] != 'other': total_useful_size += entry['size']
RECURSIVE add_useful_sizes(_, _)
add_useful_sizes(total, results) ==
  IF results = <<>> THEN total
  ELSE add_useful_sizes(
         IF results[1].file_type # "other" THEN total + results[1].size ELSE total,
         Tail(results))

\* str(x) of a value that may be None
str(x) == IF x = None THEN <<"None">> ELSE x

FileInfo(entry, is_deleted) ==
  [file_type |-> entry.file_type,
   file_metadata |-> str(entry.file_metadata),
   original_path |-> str(entry.original_path),
   final_destination |-> str(entry.final_destination),
   location |-> entry.location,
   size |-> entry.size,
   md5 |-> entry.md5,
   deleted |-> is_deleted,
   img_src |-> Len(image_info)]

ImageInfo(path, total_recovered_size, useful_size) ==
  [path |-> path,
   total_recovered_size |-> total_recovered_size,
   total_useful_size |-> useful_size]

Init ==
  /\ pc = "get_all_nodes"
  /\ fls_ok \in [{"-F -p -r -u", "-F -p -r -d"} -> BOOLEAN]
  /\ \E u \in Listings(FALSE), d \in Listings(TRUE) :
       fls_stdout = ("-F -p -r -u" :> (IF fls_ok["-F -p -r -u"] THEN u ELSE <<>>)) @@
                    ("-F -p -r -d" :> (IF fls_ok["-F -p -r -d"] THEN d ELSE <<>>))
  /\ undeleted = <<>>
  /\ deleted = <<>>
  /\ idx = 1
  /\ all_results = <<>>
  /\ overt_results = <<>>
  /\ deleted_results = <<>>
  /\ file_type = ""
  /\ disk = <<>>
  /\ dirs = {}
  /\ total_file_size = 0
  /\ total_useful_size = 0
  /\ report = <<>>
  /\ image_info = <<>>
  /\ file_info = <<>>

get_all_nodes ==
  /\ pc = "get_all_nodes"
  /\ deleted' = get_nodes_from_fls(fls_get_deleted(img_name))
  /\ undeleted' = get_nodes_from_fls(fls_get_undeleted(img_name))
  /\ pc' = "extract_overt"
  /\ UNCHANGED <<fls_ok, fls_stdout, idx, all_results, overt_results,
                 deleted_results, file_type, disk, dirs, total_file_size,
                 total_useful_size, report, image_info, file_info>>

\* extract_all_files, lines 112-115: make the directory, start the list.
extract_all_files_begin(at, destination, loop) ==
  /\ pc = at
  /\ dirs' = dirs \cup {destination}
  /\ all_results' = <<>>
  /\ idx' = 1
  /\ pc' = loop
  /\ UNCHANGED <<fls_ok, fls_stdout, undeleted, deleted, overt_results,
                 deleted_results, file_type, disk, total_file_size,
                 total_useful_size, report, image_info, file_info>>

\* extract_all_files, lines 116-139: one entry.
extract_all_files_entry(at, entries, destination) ==
  /\ pc = at
  /\ idx <= Len(entries)
  /\ LET result == extract_entry_result(img_name, entries[idx], destination, disk)
     IN /\ all_results' = Append(all_results, result)
        /\ file_type' = result.file_type
  /\ disk' = extract_entry_disk(img_name, entries[idx], destination, disk)
  /\ idx' = idx + 1
  /\ UNCHANGED <<pc, fls_ok, fls_stdout, undeleted, deleted, overt_results,
                 deleted_results, dirs, total_file_size, total_useful_size,
                 report, image_info, file_info>>

extract_overt_begin ==
  extract_all_files_begin("extract_overt", overt_dest, "extract_overt_loop")

extract_overt_entry ==
  extract_all_files_entry("extract_overt_loop", undeleted, overt_dest)

\* line 335: overt_results = extract_all_files(...)
extract_overt_return ==
  /\ pc = "extract_overt_loop"
  /\ idx > Len(undeleted)
  /\ overt_results' = all_results
  /\ pc' = "extract_deleted"
  /\ UNCHANGED <<fls_ok, fls_stdout, undeleted, deleted, idx, all_results,
                 deleted_results, file_type, disk, dirs, total_file_size,
                 total_useful_size, report, image_info, file_info>>

extract_deleted_begin ==
  extract_all_files_begin("extract_deleted", deleted_dest, "extract_deleted_loop")

extract_deleted_entry ==
  extract_all_files_entry("extract_deleted_loop", deleted, deleted_dest)

\* line 336: deleted_results = extract_all_files(...)
extract_deleted_return ==
  /\ pc = "extract_deleted_loop"
  /\ idx > Len(deleted)
  /\ deleted_results' = all_results
  /\ pc' = "get_sizes"
  /\ UNCHANGED <<fls_ok, fls_stdout, undeleted, deleted, idx, all_results,
                 overt_results, file_type, disk, dirs, total_file_size,
                 total_useful_size, report, image_info, file_info>>

\* lines 340-350: the two totals, deleted results first.
get_sizes ==
  /\ pc = "get_sizes"
  /\ total_file_size' =
       add_file_sizes(add_file_sizes(0, deleted_results), overt_results)
  /\ total_useful_size' =
       add_useful_sizes(add_useful_sizes(0, deleted_results), overt_results)
  /\ idx' = 1
  /\ pc' = "metadata_overt"
  /\ UNCHANGED <<fls_ok, fls_stdout, undeleted, deleted, all_results,
                 overt_results, deleted_results, file_type, disk, dirs,
                 report, image_info, file_info>>

\* lines 353-362: one entry of overt_results.
metadata_overt_entry ==
  /\ pc = "metadata_overt"
  /\ idx <= Len(overt_results)
  /\ overt_results' =
       [overt_results EXCEPT ![idx] = get_metadata(overt_results[idx], disk)]
  /\ idx' = idx + 1
  /\ UNCHANGED <<pc, fls_ok, fls_stdout, undeleted, deleted, all_results,
                 deleted_results, file_type, disk, dirs, total_file_size,
                 total_useful_size, report, image_info, file_info>>

metadata_overt_end ==
  /\ pc = "metadata_overt"
  /\ idx > Len(overt_results)
  /\ idx' = 1
  /\ pc' = "metadata_deleted"
  /\ UNCHANGED <<fls_ok, fls_stdout, undeleted, deleted, all_results,
                 overt_results, deleted_results, file_type, disk, dirs,
                 total_file_size, total_useful_size, report, image_info,
                 file_info>>

\* lines 364-373: one entry of deleted_results.
metadata_deleted_entry ==
  /\ pc = "metadata_deleted"
  /\ idx <= Len(deleted_results)
  /\ deleted_results' =
       [deleted_results EXCEPT ![idx] = get_metadata(deleted_results[idx], disk)]
  /\ idx' = idx + 1
  /\ UNCHANGED <<pc, fls_ok, fls_stdout, undeleted, deleted, all_results,
                 overt_results, file_type, disk, dirs, total_file_size,
                 total_useful_size, report, image_info, file_info>>

metadata_deleted_end ==
  /\ pc = "metadata_deleted"
  /\ idx > Len(deleted_results)
  /\ pc' = "create_report"
  /\ UNCHANGED <<fls_ok, fls_stdout, undeleted, deleted, idx, all_results,
                 overt_results, deleted_results, file_type, disk, dirs,
                 total_file_size, total_useful_size, report, image_info,
                 file_info>>

create_report ==
  /\ pc = "create_report"
  /\ report' = <<[img_name |-> img_name,
                 total_file_size |-> total_file_size,
                 total_useful_size |-> total_useful_size,
                 overt_results |-> overt_results,
                 deleted_results |-> deleted_results]>>
  /\ pc' = "save_sql"
  /\ UNCHANGED <<fls_ok, fls_stdout, undeleted, deleted, idx, all_results,
                 overt_results, deleted_results, file_type, disk, dirs,
                 total_file_size, total_useful_size, image_info, file_info>>

\* save_sql that goes to the file rows without committing the image row.
save_sql_image_skipped ==
  /\ pc = "save_sql"
  /\ idx' = 1
  /\ pc' = "save_sql_overt"
  /\ UNCHANGED <<fls_ok, fls_stdout, undeleted, deleted, all_results,
                 overt_results, deleted_results, file_type, disk, dirs,
                 total_file_size, total_useful_size, report, image_info,
                 file_info>>

\* save_sql, lines 233-243: the image row is committed first.
save_sql_image ==
  /\ pc = "save_sql"
  /\ image_info' =
       Append(image_info, ImageInfo(img_name, total_file_size, total_useful_size))
  /\ idx' = 1
  /\ pc' = "save_sql_overt"
  /\ UNCHANGED <<fls_ok, fls_stdout, undeleted, deleted, all_results,
                 overt_results, deleted_results, file_type, disk, dirs,
                 total_file_size, total_useful_size, report, file_info>>

\* save_sql, lines 245-249: one row of overt_results.
save_sql_overt_entry ==
  /\ pc = "save_sql_overt"
  /\ idx <= Len(overt_results)
  /\ file_info' = Append(file_info, FileInfo(overt_results[idx], FALSE))
  /\ idx' = idx + 1
  /\ UNCHANGED <<pc, fls_ok, fls_stdout, undeleted, deleted, all_results,
                 overt_results, deleted_results, file_type, disk, dirs,
                 total_file_size, total_useful_size, report, image_info>>

save_sql_overt_end ==
  /\ pc = "save_sql_overt"
  /\ idx > Len(overt_results)
  /\ idx' = 1
  /\ pc' = "save_sql_deleted"
  /\ UNCHANGED <<fls_ok, fls_stdout, undeleted, deleted, all_results,
                 overt_results, deleted_results, file_type, disk, dirs,
                 total_file_size, total_useful_size, report, image_info,
                 file_info>>

\* save_sql, lines 250-254: one row of deleted_results.
save_sql_deleted_entry ==
  /\ pc = "save_sql_deleted"
  /\ idx <= Len(deleted_results)
  /\ file_info' = Append(file_info, FileInfo(deleted_results[idx], TRUE))
  /\ idx' = idx + 1
  /\ UNCHANGED <<pc, fls_ok, fls_stdout, undeleted, deleted, all_results,
                 overt_results, deleted_results, file_type, disk, dirs,
                 total_file_size, total_useful_size, report, image_info>>

save_sql_deleted_end ==
  /\ pc = "save_sql_deleted"
  /\ idx > Len(deleted_results)
  /\ pc' = "done"
  /\ UNCHANGED <<fls_ok, fls_stdout, undeleted, deleted, idx, all_results,
                 overt_results, deleted_results, file_type, disk, dirs,
                 total_file_size, total_useful_size, report, image_info,
                 file_info>>

(***************************************************************************)
(* get_file_type on its own: one file of any signature under any name.    *)
(***************************************************************************)
ClassifyPaths ==
  {overt_dest \o <<"a.pdf">>, overt_dest \o <<"e.jpg">>, deleted_dest \o <<"notes">>}

ClassifyContents ==
  {<<>>} \cup {<<m>> : m \in DOMAIN MagicLabel}
         \cup {<<m, 7>> : m \in DOMAIN MagicLabel}

InitClassify ==
  /\ pc = "get_file_type"
  /\ \E p \in ClassifyPaths, c \in ClassifyContents : disk = (p :> c)
  /\ fls_ok = [f \in {"-F -p -r -u", "-F -p -r -d"} |-> TRUE]
  /\ fls_stdout = [f \in {"-F -p -r -u", "-F -p -r -d"} |-> <<>>]
  /\ undeleted = <<>>
  /\ deleted = <<>>
  /\ idx = 1
  /\ all_results = <<>>
  /\ overt_results = <<>>
  /\ deleted_results = <<>>
  /\ file_type = ""
  /\ dirs = {overt_dest, deleted_dest}
  /\ total_file_size = 0
  /\ total_useful_size = 0
  /\ report = <<>>
  /\ image_info = <<>>
  /\ file_info = <<>>

classify ==
  /\ pc = "get_file_type"
  /\ file_type' = get_file_type(CHOOSE p \in DOMAIN disk : TRUE, disk)
  /\ pc' = "classified"
  /\ UNCHANGED <<fls_ok, fls_stdout, undeleted, deleted, idx, all_results,
                 overt_results, deleted_results, disk, dirs, total_file_size,
                 total_useful_size, report, image_info, file_info>>

NextClassify == classify

SpecClassify == InitClassify /\ [][NextClassify]_vars

Next ==
  \/ get_all_nodes
  \/ extract_overt_begin
  \/ extract_overt_entry
  \/ extract_overt_return
  \/ extract_deleted_begin
  \/ extract_deleted_entry
  \/ extract_deleted_return
  \/ get_sizes
  \/ metadata_overt_entry
  \/ metadata_overt_end
  \/ metadata_deleted_entry
  \/ metadata_deleted_end
  \/ create_report
  \/ save_sql_image
  \/ save_sql_overt_entry
  \/ save_sql_overt_end
  \/ save_sql_deleted_entry
  \/ save_sql_deleted_end

Spec == Init /\ [][Next]_vars

(***************************************************************************)
(* Properties.                                                             *)
(***************************************************************************)
OvertExtracted ==
  pc \notin {"get_all_nodes", "extract_overt", "extract_overt_loop",
             "get_file_type", "classified"}

DeletedExtracted ==
  /\ OvertExtracted
  /\ pc \notin {"extract_deleted", "extract_deleted_loop"}

SizesDone == DeletedExtracted /\ pc # "get_sizes"

MetadataDone ==
  SizesDone /\ pc \notin {"metadata_overt", "metadata_deleted"}

Records(results) == {results[i] : i \in DOMAIN results}

AllRecords == Records(overt_results) \cup Records(deleted_results)

OtherGone(results, destination) ==
  \A r \in Records(results) :
    r.file_type = "other" =>
      /\ r.final_destination = None
      /\ resolve_destination(destination, r.original_path) \notin DOMAIN disk

\* C1: once extract_all_files has returned the records of a partition, every
\* record of class 'other' has final_destination None and no file exists at
\* the path the entry was written to.
C1_OtherDiscarded ==
  /\ OvertExtracted => OtherGone(overt_results, overt_dest)
  /\ DeletedExtracted => OtherGone(deleted_results, deleted_dest)

KeptIntact(results) ==
  \A r \in Records(results) :
    r.file_type # "other" =>
      /\ r.final_destination \in DOMAIN disk
      /\ get_md5(r.final_destination, disk) = r.md5

\* C2: once extract_all_files has returned the records of a partition, every
\* record of a class other than 'other' has a final_destination that exists
\* on disk and whose content hashes to the record's md5.
C2_KeptFilesMatchHash ==
  /\ OvertExtracted => KeptIntact(overt_results)
  /\ DeletedExtracted => KeptIntact(deleted_results)

\* C3 as stated: the recovered total is at least the useful total, and the
\* two are equal exactly when no entry was classified 'other'.
C3_EqualIffNoOther ==
  /\ total_file_size >= total_useful_size
  /\ SizesDone =>
       (total_file_size = total_useful_size
          <=> \A r \in AllRecords : r.file_type # "other")

\* C3 amended: the recovered total is at least the useful total, and the two
\* are equal exactly when every entry classified 'other' has size 0.
C3_EqualIffOtherEmpty ==
  /\ total_file_size >= total_useful_size
  /\ SizesDone =>
       (total_file_size = total_useful_size
          <=> \A r \in AllRecords : r.file_type = "other" => r.size = 0)

C3_Witness ==
  /\ SizesDone
  /\ total_file_size = total_useful_size
  /\ total_file_size > 0
  /\ \E r \in AllRecords :
       r.file_type = "other" /\ r.size = 0 /\ Image[r.location].icat_ok

RECURSIVE SumOver(_, _)
SumOver(S, f) ==
  IF S = {} THEN 0
  ELSE LET x == CHOOSE y \in S : TRUE
       IN f[x] + SumOver(S \ {x}, f)

SizesOf(results) == SumOver(DOMAIN results, [i \in DOMAIN results |-> results[i].size])

Listed(node) ==
  Cardinality({i \in DOMAIN undeleted : undeleted[i].location = node})
  + Cardinality({i \in DOMAIN deleted : deleted[i].location = node})

FetchedLen(node) ==
  IF Image[node].icat_ok THEN Len(Image[node].data) ELSE 0

\* C4: total_file_size is the sum of size over every record of both
\* partitions, discarded ones included, and it depends only on how often
\* each inode is listed, not on the order of the listings.
C4_TotalIsSumOfSizes ==
  SizesDone =>
    /\ total_file_size = SizesOf(overt_results) + SizesOf(deleted_results)
    /\ total_file_size =
         SumOver(Nodes, [n \in Nodes |-> Listed(n) * FetchedLen(n)])

C4_Witness ==
  /\ SizesDone
  /\ Len(undeleted) = 2 /\ undeleted[1].location > undeleted[2].location
  /\ Len(deleted) = 2 /\ deleted[1].location < deleted[2].location
  /\ \E r \in AllRecords : r.file_type = "other" /\ r.size > 0
  /\ \E r \in AllRecords : r.file_type # "other"

\* What a fetch that succeeded leaves in a record.
OrdinaryRecord(r) ==
  \E n \in Nodes :
    /\ Image[n].icat_ok
    /\ r.size = Len(Image[n].data)
    /\ r.md5 = md5_update(7, Image[n].data)
    /\ r.file_type \in {"pdf", "image", "other"}
    /\ DOMAIN r \subseteq {"original_path", "location", "final_destination",
                           "size", "md5", "file_type", "file_metadata"}

\* C5: an entry whose fetch failed does not stop the run; it is left out of
\* the records or carries a failure marker, and is never recorded like an
\* entry that was fetched.
C5_FetchFailureMarked ==
  pc = "done" =>
    /\ \A e \in Records(undeleted) :
         Image[e.location].icat_ok =>
           \E r \in Records(overt_results) :
             r.location = e.location /\ r.size = Len(Image[e.location].data)
    /\ \A e \in Records(deleted) :
         Image[e.location].icat_ok =>
           \E r \in Records(deleted_results) :
             r.location = e.location /\ r.size = Len(Image[e.location].data)
    /\ \A r \in AllRecords :
         ~Image[r.location].icat_ok => ~OrdinaryRecord(r)

\* C6: a run in which fls failed for a partition never ends with a report
\* and a catalog written.
C6_ListingFailureAborts ==
  ~(/\ pc = "done"
    /\ \E f \in DOMAIN fls_ok : ~fls_ok[f]
    /\ report # <<>>
    /\ image_info # <<>>)

Extraction(r) ==
  IF r.file_type = "pdf" THEN get_pdf_metadata(r.final_destination, disk)
  ELSE get_exif_data(r.final_destination, disk)

Enriched(r) == "file_metadata" \in DOMAIN r

MetadataSound(results) ==
  \A r \in Records(results) :
    Enriched(r) =>
      /\ r.file_metadata # None =>
           /\ r.file_type \in {"pdf", "image"}
           /\ ~Extraction(r).raised
      /\ (r.file_type \in {"pdf", "image"} /\ Extraction(r).raised) =>
           r.file_metadata = None

EnrichedUpTo(results, n) ==
  \A i \in DOMAIN results : i <= n => Enriched(results[i])

\* C7: a record's metadata is set only if its class is pdf or image and the
\* extractor returned; an extractor that raises leaves None, and the loops
\* go on to every later record of both partitions.
C7_MetadataOnlyOnSuccess ==
  /\ MetadataSound(overt_results)
  /\ MetadataSound(deleted_results)
  /\ pc = "metadata_overt" => EnrichedUpTo(overt_results, idx - 1)
  /\ pc = "metadata_deleted" =>
       /\ EnrichedUpTo(overt_results, Len(overt_results))
       /\ EnrichedUpTo(deleted_results, idx - 1)
  /\ MetadataDone =>
       /\ Len(overt_results) = Len(undeleted)
       /\ Len(deleted_results) = Len(deleted)
       /\ \A r \in AllRecords : Enriched(r)

C7_Witness ==
  /\ pc = "done"
  /\ \E i, j \in DOMAIN overt_results :
       /\ i < j
       /\ overt_results[i].file_type = "pdf"
       /\ Extraction(overt_results[i]).raised
       /\ overt_results[i].file_metadata = None
       /\ overt_results[j].file_metadata # None
  /\ \E r \in Records(deleted_results) : r.file_metadata # None

Core(results) ==
  [i \in DOMAIN results |->
     [original_path |-> results[i].original_path,
      location |-> results[i].location,
      final_destination |-> results[i].final_destination,
      size |-> results[i].size,
      md5 |-> results[i].md5,
      file_type |-> results[i].file_type]]

CoreKept ==
  pc \in {"metadata_overt", "metadata_deleted"} =>
    /\ Core(overt_results') = Core(overt_results)
    /\ Core(deleted_results') = Core(deleted_results)

\* C8: a step of the metadata loops leaves every record in its partition
\* with the same original_path, location, final_destination, size, md5 and
\* file_type.
C8_EnrichmentKeepsFields ==
  [][CoreKept]_vars

C8_Witness ==
  /\ pc = "create_report"
  /\ \E r \in AllRecords : r.file_type = "other" /\ r.file_metadata = None
  /\ \E r \in AllRecords :
       r.file_type # "other" /\ Extraction(r).raised /\ r.file_metadata = None
  /\ \E r \in AllRecords : r.file_metadata # None

Classified == disk[CHOOSE p \in DOMAIN disk : TRUE]

C10_StepsInOrder ==
  /\ ~DeletedExtracted => total_file_size = 0 /\ total_useful_size = 0
  /\ pc = "get_sizes" =>
       /\ Len(overt_results) = Len(undeleted)
       /\ Len(deleted_results) = Len(deleted)
  /\ ~SizesDone => image_info = <<>>
  /\ image_info # <<>> =>
       /\ Len(image_info) = 1
       /\ image_info[1].total_recovered_size =
            SizesOf(overt_results) + SizesOf(deleted_results)
       /\ image_info[1].total_recovered_size = total_file_size
       /\ image_info[1].total_useful_size = total_useful_size
  /\ file_info # <<>> =>
       /\ image_info # <<>>
       /\ \A i \in DOMAIN file_info : file_info[i].img_src = 1

C10_Witness ==
  /\ pc = "done"
  /\ Len(file_info) >= 3
  /\ image_info[1].total_recovered_size > image_info[1].total_useful_size
  /\ image_info[1].total_useful_size > 0

====
